---- MODULE Spec2Model ----
(***************************************************************************)
(* A model of IChingScorer (src/src/i_ching_scorer.py).                    *)
(*                                                                         *)
(* The scorer keeps frequencies and probabilities computed from historical *)
(* draws; calculate_probabilities recomputes the probabilities,            *)
(* ensemble_probabilities, score and score_prediction_sets read them.      *)
(*                                                                         *)
(* Python floats are modelled as exact rationals <<n, d>> in lowest terms  *)
(* with d > 0, so that equality of two values is equality of the numbers   *)
(* they denote.  A Python dict is a function on its set of keys, None is   *)
(* the empty sequence and a supplied optional argument v is <<v>>.         *)
(***************************************************************************)
EXTENDS Integers, Sequences, FiniteSets, TLC

----------------------------------------------------------------------------
(* Bounds of the model *)

\* largest num_lotto_numbers
MaxN == 5
\* most draws in a history handed to the constructor
MaxDraws == 2
\* most numbers in a history, over all its draws
MaxOcc == 3
\* most numbers in the one draw of a history of Spec
MaxDrawLen == 2

----------------------------------------------------------------------------
(* Exact rational arithmetic *)

Abs(x) == IF x < 0 THEN -x ELSE x

RECURSIVE GCD(_, _)
GCD(a, b) == IF b = 0 THEN a ELSE GCD(b, a % b)

\* the rational n/d (d # 0) in lowest terms with a positive denominator
Reduced(n, d, g) == IF d < 0 THEN <<(-n) \div g, (-d) \div g>> ELSE <<n \div g, d \div g>>

Rat(n, d) == Reduced(n, d, GCD(Abs(n), Abs(d)))

Int2Rat(n) == <<n, 1>>
Zero == Int2Rat(0)
One == Int2Rat(1)

RAdd(a, b) == Rat(a[1] * b[2] + b[1] * a[2], a[2] * b[2])
RSub(a, b) == Rat(a[1] * b[2] - b[1] * a[2], a[2] * b[2])
RMul(a, b) == Rat(a[1] * b[1], a[2] * b[2])
\* only applied to a divisor that is not zero
RDiv(a, b) == Rat(a[1] * b[2], a[2] * b[1])
RAbs(a) == <<Abs(a[1]), a[2]>>
RLe(a, b) == a[1] * b[2] <= b[1] * a[2]
RLt(a, b) == a[1] * b[2] < b[1] * a[2]

\* the sum of f[k] over k in S
RECURSIVE RSum(_, _)
RSumFrom(f, S, k) == RAdd(f[k], RSum(f, S \ {k}))

RSum(f, S) == IF S = {} THEN Zero ELSE RSumFrom(f, S, CHOOSE x \in S : TRUE)

----------------------------------------------------------------------------
(* Python helpers *)

\* d.get(k, default)
Get(d, k, default) == IF k \in DOMAIN d THEN d[k] ELSE default

None == <<>>
Some(v) == <<v>>
IsNone(o) == o = <<>>

\* a call that returned v, a call that raised the exception e
Returned(v) == [status |-> "returned", value |-> v]
Raised(e) == [status |-> "raised", value |-> e]

\* all sequences over S of length at most n
SeqsUpTo(S, n) == UNION {[1..k -> S] : k \in 0..n}

----------------------------------------------------------------------------
(* The scorer and its caller *)

VARIABLES
    pc,               \* the caller: "new" before IChingScorer(...), "failed" once
                      \* that raised, "ready" to call, "returned" from a call
    num_numbers,      \* self.num_numbers
    historical_draws, \* self.historical_draws
    smoothing,        \* self.smoothing
    frequencies,      \* self.frequencies (<<>> while unset)
    probabilities,    \* self.probabilities (<<>> while unset)
    built,            \* history: what __init__ left in the three fields above
    used,             \* history: the smoothing behind the stored probabilities
    overridden,       \* history: calculate_probabilities was handed a smoothing
    call,             \* the last call: [op, args]
    outcome           \* what the last call returned or raised

vars == <<pc, num_numbers, historical_draws, smoothing, frequencies,
          probabilities, built, used, overridden, call, outcome>>

\* smoothing values handed to the constructor and to calculate_probabilities
SmoothingVals == {Int2Rat(-1), Zero, One}

\* numbers found in historical draws: two inside [1, N] and one outside
HistVals(N) == {1, N, N + 1}

\* histories of at most d draws holding at most occ numbers in all
RECURSIVE Histories(_, _, _)
Histories(V, d, occ) ==
    IF d = 0 THEN {<<>>}
    ELSE {<<>>} \cup
         UNION {{<<x>> \o h : h \in Histories(V, d - 1, occ - Len(x))} :
                x \in SeqsUpTo(V, occ)}

\* mutant of CounterUpdate: a number counts once per draw
RECURSIVE CounterUpdateOnce(_, _)
CounterUpdateOnce(counts, draw) ==
    IF draw = <<>> THEN counts
    ELSE LET x == Head(draw)
             c == [k \in DOMAIN counts \cup {x} |->
                     IF k = x THEN Get(counts, k, 0) + 1 ELSE counts[k]]
         IN  CounterUpdateOnce(c, SelectSeq(Tail(draw), LAMBDA y : y # x))

\* Counter.update(draw): one more for every element of draw
RECURSIVE CounterUpdate(_, _)
CounterUpdate(counts, draw) ==
    IF draw = <<>> THEN counts
    ELSE LET x == Head(draw)
             c == [k \in DOMAIN counts \cup {x} |->
                     IF k = x THEN Get(counts, k, 0) + 1 ELSE counts[k]]
         IN  CounterUpdate(c, Tail(draw))

\* counts after the loop of _compute_frequencies
RECURSIVE CountDraws(_, _)
CountDraws(counts, draws) ==
    IF draws = <<>> THEN counts
    ELSE CountDraws(CounterUpdate(counts, Head(draws)), Tail(draws))

compute_frequencies(draws, N) ==
    LET counts == CountDraws(<<>>, draws)
    IN  [i \in 1..N |-> Get(counts, i, 0)]

\* mutant of modifier: the remainder as it is, 0 for the multiples of five
modifier_remainder(i) == i % 5

\* i % 5 or 5
modifier(i) == IF i % 5 = 0 THEN 5 ELSE i % 5

\* the dict weighted of calculate_probabilities
weighted(freq, N, s) ==
    [i \in 1..N |-> RMul(RAdd(Int2Rat(Get(freq, i, 0)), s), Int2Rat(modifier(i)))]

\* mutant of normalise: the weights are stored as they are
normalise_skipped(m) ==
    IF DOMAIN m # {} /\ RSum(m, DOMAIN m) = Zero
    THEN Raised("ZeroDivisionError")
    ELSE Returned(m)

\* mutant of normalise: a zero total is returned as it is
unguarded(m, total) ==
    Returned([i \in DOMAIN m |-> IF total = Zero THEN m[i] ELSE RDiv(m[i], total)])

normalise_unguarded(m) == unguarded(m, RSum(m, DOMAIN m))

\* {i: v / total for i, v in m.items()}, or the ZeroDivisionError of its first division
divided(m, total) ==
    IF DOMAIN m # {} /\ total = Zero
    THEN Raised("ZeroDivisionError")
    ELSE Returned([i \in DOMAIN m |-> RDiv(m[i], total)])

\* total = sum of the values of m, then the division
normalise(m) == divided(m, RSum(m, DOMAIN m))

\* the smoothing calculate_probabilities uses: the argument unless it is None
used_smoothing(arg, stored) == IF IsNone(arg) THEN stored ELSE arg[1]

calc(freq, N, arg, stored) == normalise(weighted(freq, N, used_smoothing(arg, stored)))

NoCall == [op |-> "none", args |-> <<>>]

InitHist(maxDraws, maxOcc) ==
    /\ pc = "new"
    /\ num_numbers \in 1..MaxN
    /\ historical_draws \in Histories(HistVals(num_numbers), maxDraws, maxOcc)
    /\ smoothing \in SmoothingVals
    /\ frequencies = <<>>
    /\ probabilities = <<>>
    /\ built = <<>>
    /\ used = smoothing
    /\ overridden = FALSE
    /\ call = NoCall
    /\ outcome = Returned(<<>>)

\* IChingScorer(config, historical_draws, smoothing)
construct ==
    /\ pc = "new"
    /\ \E freq \in {compute_frequencies(historical_draws, num_numbers)} :
       \E r \in {calc(freq, num_numbers, None, smoothing)} :
           /\ frequencies' = freq
           /\ outcome' = r
           /\ IF r.status = "returned"
              THEN /\ probabilities' = r.value
                   /\ pc' = "returned"
                   /\ built' = [smoothing |-> smoothing, frequencies |-> freq,
                                probabilities |-> r.value]
              ELSE /\ pc' = "failed"
                   /\ UNCHANGED <<probabilities, built>>
    /\ call' = [op |-> "__init__", args |-> <<>>]
    /\ UNCHANGED <<num_numbers, historical_draws, smoothing, used, overridden>>

\* mutant of calculate_probabilities: the smoothing used is stored
calculate_probabilities_storing ==
    /\ pc = "ready"
    /\ \E arg \in {None} \cup {Some(s) : s \in SmoothingVals} :
         \E r \in {calc(frequencies, num_numbers, arg, smoothing)} :
             /\ call' = [op |-> "calculate_probabilities", args |-> <<arg>>]
             /\ outcome' = r
             /\ probabilities' = IF r.status = "returned" THEN r.value ELSE probabilities
             /\ used' = IF r.status = "returned" THEN used_smoothing(arg, smoothing)
                        ELSE used
             /\ smoothing' = used_smoothing(arg, smoothing)
             /\ overridden' = (overridden \/ ~IsNone(arg))
    /\ pc' = "returned"
    /\ UNCHANGED <<num_numbers, historical_draws, frequencies, built>>

\* scorer.calculate_probabilities(smoothing)
calculate_probabilities ==
    /\ pc = "ready"
    /\ \E arg \in {None} \cup {Some(s) : s \in SmoothingVals} :
         \E r \in {calc(frequencies, num_numbers, arg, smoothing)} :
             /\ call' = [op |-> "calculate_probabilities", args |-> <<arg>>]
             /\ outcome' = r
             /\ probabilities' = IF r.status = "returned" THEN r.value ELSE probabilities
             /\ used' = IF r.status = "returned" THEN used_smoothing(arg, smoothing)
                        ELSE used
             /\ overridden' = (overridden \/ ~IsNone(arg))
    /\ pc' = "returned"
    /\ UNCHANGED <<num_numbers, historical_draws, smoothing, frequencies, built>>

\* the caller has read what the call left and goes on to its next call
next_call ==
    /\ pc = "returned"
    /\ pc' = "ready"
    /\ call' = NoCall
    /\ outcome' = Returned(<<>>)
    /\ UNCHANGED <<num_numbers, historical_draws, smoothing, frequencies,
                   probabilities, built, used, overridden>>

----------------------------------------------------------------------------
(* Ensemble combination *)

\* multipliers found in temporal_weights and ml_predictions
WeightVals == {Zero, One, Int2Rat(2)}

\* the mappings handed over as temporal_weights or ml_predictions: no key, a
\* single key of [1, N] with any multiplier, every key of [1, N] with the
\* same multiplier, or a key outside [1, N]
WeightMaps(N) ==
    {<<>>}
    \cup {[k \in {j} |-> v] : j \in {1, N}, v \in WeightVals}
    \cup {[k \in 1..N |-> v] : v \in {Zero, One}}
    \cup {[k \in {N + 1} |-> Zero]}

OptWeights(N) == {None} \cup {Some(w) : w \in WeightMaps(N)}

\* Python's truth value of an optional dict or list: None and empty are false
Truthy(o) == ~IsNone(o) /\ o[1] # <<>>

\* mutant of combine: a number absent from a supplied mapping is multiplied by 0
combine_absent_zero(probs, t, m) ==
    [i \in DOMAIN probs |->
        LET a == IF Truthy(t) THEN RMul(probs[i], Get(t[1], i, Zero)) ELSE probs[i]
        IN  IF Truthy(m) THEN RMul(a, Get(m[1], i, Zero)) ELSE a]

\* mutant of combine: ml_predictions is left out
combine_temporal_only(probs, t, m) ==
    [i \in DOMAIN probs |->
        IF Truthy(t) THEN RMul(probs[i], Get(t[1], i, One)) ELSE probs[i]]

\* combined after the loop of ensemble_probabilities
combine(probs, t, m) ==
    [i \in DOMAIN probs |->
        LET a == IF Truthy(t) THEN RMul(probs[i], Get(t[1], i, One)) ELSE probs[i]
        IN  IF Truthy(m) THEN RMul(a, Get(m[1], i, One)) ELSE a]

ensemble(probs, t, m) == normalise(combine(probs, t, m))

\* mutant of ensemble_probabilities: the result is stored
ensemble_probabilities_in_place ==
    /\ pc = "ready"
    /\ \E t \in OptWeights(num_numbers), m \in OptWeights(num_numbers) :
         \E r \in {ensemble(probabilities, t, m)} :
             /\ call' = [op |-> "ensemble_probabilities", args |-> <<t, m>>]
             /\ outcome' = r
             /\ probabilities' = IF r.status = "returned" THEN r.value ELSE probabilities
    /\ pc' = "returned"
    /\ UNCHANGED <<num_numbers, historical_draws, smoothing, frequencies,
                   built, used, overridden>>

\* scorer.ensemble_probabilities(temporal_weights, ml_predictions)
ensemble_probabilities ==
    /\ pc = "ready"
    /\ \E t \in OptWeights(num_numbers), m \in OptWeights(num_numbers) :
         /\ call' = [op |-> "ensemble_probabilities", args |-> <<t, m>>]
         /\ outcome' = ensemble(probabilities, t, m)
    /\ pc' = "returned"
    /\ UNCHANGED <<num_numbers, historical_draws, smoothing, frequencies,
                   probabilities, built, used, overridden>>

----------------------------------------------------------------------------
(* Scoring *)

IsInjective(s) == \A i, j \in DOMAIN s : s[i] = s[j] => i = j

\* numbers of [1, N] found in candidate sets
CandVals(N) == {1, 2, N} \cap 1..N

\* candidate sets: the sequences of distinct numbers of CandVals(N), the empty
\* one among them, and two sets holding a number outside [1, N]
CandidateSets(N) ==
    {s \in SeqsUpTo(CandVals(N), Cardinality(CandVals(N))) : IsInjective(s)}
    \cup {<<N + 1>>, <<1, N + 1>>}

\* candidate_sets: no set, one set, or two sets of at most one number
CandidateLists(N) ==
    {<<>>}
    \cup {<<s>> : s \in CandidateSets(N)}
    \cup {<<s, t>> : s, t \in {<<>>, <<1>>, <<N>>}}

\* recent_draws: None, no draw, one draw or two draws out of the numbers 1 and 2
RecentDraws ==
    {None, Some(<<>>), Some(<< <<>> >>), Some(<< <<1>> >>), Some(<< <<2, 1>> >>),
     Some(<< <<2>>, <<1, 2>> >>)}

\* sorted(s)
RECURSIVE Insert(_, _)
Insert(x, s) ==
    IF s = <<>> THEN <<x>>
    ELSE IF x <= Head(s) THEN <<x>> \o s
    ELSE <<Head(s)>> \o Insert(x, Tail(s))

RECURSIVE sorted(_)
sorted(s) == IF s = <<>> THEN <<>> ELSE Insert(Head(s), sorted(Tail(s)))

RECURSIVE SumSeq(_)
SumSeq(s) == IF s = <<>> THEN 0 ELSE Head(s) + SumSeq(Tail(s))

Range(s) == {s[i] : i \in DOMAIN s}

\* the sum of probs[s[i]] over the positions of s
RECURSIVE SumProbs(_, _)
SumProbs(probs, s) ==
    IF s = <<>> THEN Zero ELSE RAdd(probs[Head(s)], SumProbs(probs, Tail(s)))

\* mean([self.probabilities[num] for num in number_set])
score_value(probs, s) ==
    IF \E i \in DOMAIN s : s[i] \notin DOMAIN probs THEN Raised("KeyError")
    ELSE IF s = <<>> THEN Raised("StatisticsError")
    ELSE Returned(RDiv(SumProbs(probs, s), Int2Rat(Len(s))))

\* scorer.score(number_set)
score ==
    /\ pc = "ready"
    /\ \E s \in CandidateSets(num_numbers) :
         /\ call' = [op |-> "score", args |-> <<s>>]
         /\ outcome' = score_value(probabilities, s)
    /\ pc' = "returned"
    /\ UNCHANGED <<num_numbers, historical_draws, smoothing, frequencies,
                   probabilities, built, used, overridden>>

\* the default of the argument weights
DefaultWeights ==
    [spread |-> Rat(1, 4), sum |-> Rat(1, 4), frequency |-> Rat(1, 4),
     recent |-> Rat(1, 4)]

RECURSIVE UnionDraws(_)
UnionDraws(draws) ==
    IF draws = <<>> THEN {} ELSE Range(Head(draws)) \cup UnionDraws(Tail(draws))

\* recent_numbers of score_prediction_sets
recent_numbers(recent) == IF Truthy(recent) THEN UnionDraws(recent[1]) ELSE {}

\* (max_number + 1) / 2 * k
expected_sum(N, k) == RMul(Rat(N + 1, 2), Int2Rat(k))

\* mutant of spread_score: the spread is not divided by max_number
spread_score_unscaled(s_sorted, N) ==
    IF Len(s_sorted) > 1
    THEN Int2Rat(s_sorted[Len(s_sorted)] - s_sorted[1])
    ELSE Zero

spread_score(s_sorted, N) ==
    IF Len(s_sorted) > 1
    THEN Rat(s_sorted[Len(s_sorted)] - s_sorted[1], N)
    ELSE Zero

sum_score(s_sorted, N) ==
    LET e == expected_sum(N, Len(s_sorted))
    IN  RSub(One, RDiv(RAbs(RSub(Int2Rat(SumSeq(s_sorted)), e)), e))

freq_score(probs, s_sorted) == RDiv(SumProbs(probs, s_sorted), Int2Rat(Len(s_sorted)))

\* mutant of recent_score: the overlap itself
recent_score_overlap(s_sorted, rn) ==
    IF rn # {}
    THEN Rat(Cardinality(Range(s_sorted) \cap rn), Len(s_sorted))
    ELSE One

recent_score(s_sorted, rn) ==
    IF rn # {}
    THEN RSub(One, Rat(Cardinality(Range(s_sorted) \cap rn), Len(s_sorted)))
    ELSE One

\* one turn of the loop of score_prediction_sets: the record of s, or the
\* exception the turn raises
score_set(probs, N, s, recent, weights) ==
    LET s_sorted == sorted(s)
        sp == spread_score(s_sorted, N)
        su == sum_score(s_sorted, N)
        fr == freq_score(probs, s_sorted)
        re == recent_score(s_sorted, recent_numbers(recent))
        final == RAdd(RAdd(RMul(weights.spread, sp), RMul(weights.sum, su)),
                      RAdd(RMul(weights.frequency, fr), RMul(weights.recent, re)))
    IN  IF expected_sum(N, Len(s_sorted)) = Zero THEN Raised("ZeroDivisionError")
        ELSE IF \E i \in DOMAIN s : s[i] \notin DOMAIN probs THEN Raised("KeyError")
        ELSE Returned([set |-> s_sorted, score |-> final,
                       components |-> [spread |-> sp, sum |-> su,
                                       frequency |-> fr, recent |-> re]])

\* the list scores, or the exception of the first turn that raises
RECURSIVE score_sets(_, _, _, _, _)
score_sets(probs, N, sets, recent, weights) ==
    IF sets = <<>> THEN Returned(<<>>)
    ELSE LET r == score_set(probs, N, Head(sets), recent, weights)
         IN  IF r.status = "raised" THEN r
             ELSE LET rest == score_sets(probs, N, Tail(sets), recent, weights)
                  IN  IF rest.status = "raised" THEN rest
                      ELSE Returned(<<r.value>> \o rest.value)

\* scorer.score_prediction_sets(candidate_sets, recent_draws)
score_prediction_sets ==
    /\ pc = "ready"
    /\ \E sets \in CandidateLists(num_numbers), recent \in RecentDraws :
         /\ call' = [op |-> "score_prediction_sets", args |-> <<sets, recent>>]
         /\ outcome' = score_sets(probabilities, num_numbers, sets, recent,
                                  DefaultWeights)
    /\ pc' = "returned"
    /\ UNCHANGED <<num_numbers, historical_draws, smoothing, frequencies,
                   probabilities, built, used, overridden>>

----------------------------------------------------------------------------
(* Specifications *)

\* construction and recalculation, over histories of several draws
InitCtor == InitHist(MaxDraws, MaxOcc)

NextCtor == construct \/ calculate_probabilities \/ next_call

SpecCtor == InitCtor /\ [][NextCtor]_vars

\* every operation, over histories of at most one draw
Init == InitHist(1, MaxDrawLen)

Next ==
    \/ construct
    \/ calculate_probabilities
    \/ ensemble_probabilities
    \/ score
    \/ score_prediction_sets
    \/ next_call

Spec == Init /\ [][Next]_vars

----------------------------------------------------------------------------
(* What the properties are stated with: the quantities of the              *)
(* specification, computed from the constructor's arguments                *)

N == num_numbers

\* the scorer exists: __init__ returned
Constructed == pc \in {"ready", "returned"}

\* the positions <<d, p>> of the historical draws
Positions ==
    UNION {{<<d, p>> : p \in DOMAIN historical_draws[d]} : d \in DOMAIN historical_draws}

\* how often i occurs in the historical draws
Occurrences(i) ==
    Cardinality({x \in Positions : historical_draws[x[1]][x[2]] = i})

\* the element modifier: 1, 2, 3, 4, 5, 1, 2, ...
Element(i) == ((i - 1) % 5) + 1

Weight(i, s) == RMul(RAdd(Int2Rat(Occurrences(i)), s), Int2Rat(Element(i)))

TotalWeight(s) == RSum([i \in 1..N |-> Weight(i, s)], 1..N)

InUnit(r) == RLe(Zero, r) /\ RLe(r, One)

\* the last step was __init__ or calculate_probabilities
Calculated ==
    /\ pc \in {"returned", "failed"}
    /\ call.op \in {"__init__", "calculate_probabilities"}

\* the smoothing of that step
CallSmoothing ==
    IF call.op = "calculate_probabilities" /\ call.args[1] # None
    THEN call.args[1][1]
    ELSE smoothing

After(op) == pc = "returned" /\ call.op = op

\* the stored mapping is the weights of smoothing s divided by their total
IsDistributionOver(s, total) ==
    /\ outcome.status = "returned"
    /\ DOMAIN probabilities = 1..N
    /\ RSum(probabilities, 1..N) = One
    /\ RLt(Zero, total)
    /\ \A i \in 1..N : probabilities[i] = RDiv(Weight(i, s), total)

IsDistribution(s) == IsDistributionOver(s, TotalWeight(s))

----------------------------------------------------------------------------
(* C1 *)

\* C1 as stated: after construction or calculate_probabilities with any
\* smoothing >= 0 and any draws, the stored probabilities are the weights
\* divided by their positive total, over the keys 1..N, and sum to 1.
C1_AnySmoothingNormalised ==
    (Calculated /\ RLe(Zero, CallSmoothing)) => IsDistribution(CallSmoothing)

\* C1 amended: the same whenever smoothing > 0, or smoothing = 0 and some
\* number of [1, N] occurs in the draws.
C1_Normalised ==
    ( /\ Calculated
      /\ RLe(Zero, CallSmoothing)
      /\ (RLt(Zero, CallSmoothing) \/ \E i \in 1..N : Occurrences(i) > 0) )
    => IsDistribution(CallSmoothing)

\* construction with smoothing 0 over draws that hold a number outside [1, N]
C1_Witness ==
    /\ After("__init__")
    /\ smoothing = Zero
    /\ \E x \in Positions : historical_draws[x[1]][x[2]] \notin 1..N
    /\ \E i \in 1..N : probabilities[i] = Zero

----------------------------------------------------------------------------
(* C2 *)

\* C2 as stated: for N >= 5 and probabilities computed with smoothing 0, of
\* two numbers with equal frequency the one with the smaller modifier has
\* the strictly smaller probability.
C2_EqualFrequencyOrdered ==
    (Constructed /\ used = Zero /\ N >= 5) =>
        \A a, b \in 1..N :
            (frequencies[a] = frequencies[b] /\ Element(a) < Element(b))
            => RLt(probabilities[a], probabilities[b])

\* C2 amended: the same for two numbers with equal frequency that is not 0.
C2_EqualPositiveFrequencyOrdered ==
    (Constructed /\ used = Zero /\ N >= 5) =>
        \A a, b \in 1..N :
            ( /\ frequencies[a] = frequencies[b]
              /\ frequencies[a] > 0
              /\ Element(a) < Element(b) )
            => RLt(probabilities[a], probabilities[b])

\* 1 and 5 drawn equally often, probabilities computed with smoothing 0
C2_Witness ==
    /\ Constructed
    /\ Calculated
    /\ used = Zero
    /\ N >= 5
    /\ frequencies[1] = frequencies[5]
    /\ frequencies[1] > 0

----------------------------------------------------------------------------
(* C3 *)

\* C3: after construction frequencies has the keys 1..N and maps i to the
\* number of positions of the historical draws that hold i.
C3_Frequencies ==
    Constructed =>
        /\ DOMAIN frequencies = 1..N
        /\ \A i \in 1..N : frequencies[i] = Occurrences(i)

\* a draw that holds a number twice, a number outside [1, N] in the draws,
\* and a number of [1, N] that was never drawn
C3_Witness ==
    /\ Constructed
    /\ \E d \in DOMAIN historical_draws : ~IsInjective(historical_draws[d])
    /\ \E i \in 1..N : frequencies[i] >= 2
    /\ \E x \in Positions : historical_draws[x[1]][x[2]] \notin 1..N
    /\ \E i \in 1..N : frequencies[i] = 0

----------------------------------------------------------------------------
(* C4 *)

\* C4: once the scorer is constructed no step changes frequencies, which
\* stay those of construction; a step that changes probabilities is a
\* calculate_probabilities call; ensemble_probabilities, score and
\* score_prediction_sets change neither.
C4_Frame ==
    [][Constructed =>
        /\ frequencies' = frequencies
        /\ frequencies' = built'.frequencies
        /\ (probabilities' # probabilities => call'.op = "calculate_probabilities")
        /\ (call'.op \in {"ensemble_probabilities", "score", "score_prediction_sets"}
            => probabilities' = probabilities)]_vars

\* ensemble_probabilities returned a mapping that differs from the stored
\* one, which a recalculation had replaced
C4_Witness ==
    /\ After("ensemble_probabilities")
    /\ outcome.status = "returned"
    /\ outcome.value # probabilities
    /\ probabilities # built.probabilities
    /\ frequencies = built.frequencies

----------------------------------------------------------------------------
(* C5 *)

\* an argument of ensemble_probabilities that is omitted, empty, or 1.0 on
\* every key it has
Neutral(o) == IsNone(o) \/ \A k \in DOMAIN o[1] : o[1][k] = One

----------------------------------------------------------------------------
(* C6 *)

\* the multiplier of i in an argument of ensemble_probabilities
Mult(o, i) ==
    IF IsNone(o) THEN One
    ELSE IF i \in DOMAIN o[1] THEN o[1][i] ELSE One

Product(p, t, m, i) == RMul(p[i], RMul(Mult(t, i), Mult(m, i)))

ProductTotal(p, t, m) == RSum([i \in DOMAIN p |-> Product(p, t, m, i)], DOMAIN p)

\* the mapping returned is p(i)*t(i)*m(i) divided by total
IsProductOver(total) ==
    \A i \in 1..N :
        outcome.value[i] =
            RDiv(Product(probabilities, call.args[1], call.args[2], i), total)

\* C6: when the total of p(j)*t(j)*m(j) is not zero, ensemble_probabilities
\* returns p(i)*t(i)*m(i) divided by that total for every i of [1, N]; the
\* result sums to 1 and is the same with the two arguments swapped.
C6_Ensemble ==
    ( /\ After("ensemble_probabilities")
      /\ ProductTotal(probabilities, call.args[1], call.args[2]) # Zero )
    => /\ outcome.status = "returned"
       /\ DOMAIN outcome.value = 1..N
       /\ IsProductOver(ProductTotal(probabilities, call.args[1], call.args[2]))
       /\ RSum(outcome.value, 1..N) = One
       /\ ensemble(probabilities, call.args[2], call.args[1]) = outcome

\* two partial mappings on different keys, neither neutral, that change the result
C6_Witness ==
    /\ After("ensemble_probabilities")
    /\ N > 1
    /\ call.args[1] = Some([k \in {1} |-> Int2Rat(2)])
    /\ call.args[2] = Some([k \in {N} |-> Int2Rat(2)])
    /\ outcome.status = "returned"
    /\ outcome.value # probabilities

----------------------------------------------------------------------------
(* C7, C8 *)

\* a candidate set as the specification asks for it
ValidSet(s) == s # <<>> /\ IsInjective(s) /\ \A i \in DOMAIN s : s[i] \in 1..N

ValidSets(sets) == \A j \in DOMAIN sets : ValidSet(sets[j])

\* C7: with probabilities computed with smoothing >= 0 and valid candidate
\* sets, score_prediction_sets returns one record per set whose spread,
\* frequency and recent components lie in [0, 1].
C7_ComponentsInUnit ==
    ( /\ After("score_prediction_sets")
      /\ RLe(Zero, used)
      /\ ValidSets(call.args[1]) )
    => /\ outcome.status = "returned"
       /\ Len(outcome.value) = Len(call.args[1])
       /\ \A j \in DOMAIN outcome.value :
            /\ InUnit(outcome.value[j].components.spread)
            /\ InUnit(outcome.value[j].components.frequency)
            /\ InUnit(outcome.value[j].components.recent)

\* a set of three numbers from 1 to N >= 5, partly among the recent numbers
C7_Witness ==
    /\ After("score_prediction_sets")
    /\ RLe(Zero, used)
    /\ N >= 5
    /\ Len(call.args[1]) = 1
    /\ ValidSets(call.args[1])
    /\ Len(call.args[1][1]) = 3
    /\ outcome.status = "returned"
    /\ outcome.value[1].components.spread = Rat(N - 1, N)
    /\ RLt(Zero, outcome.value[1].components.recent)
    /\ RLt(outcome.value[1].components.recent, One)
    /\ RLt(Zero, outcome.value[1].components.frequency)

\* how many numbers of the candidate set s occur in the recent draws rd
Overlapping(s, rd) ==
    Cardinality({i \in DOMAIN s :
        \E d \in DOMAIN rd : \E q \in DOMAIN rd[d] : rd[d][q] = s[i]})

\* C8: for valid candidate sets score_prediction_sets returns, per set of k
\* numbers, the recent component 1 when recent_draws is omitted and 1 - c/k
\* when it is supplied, c of the k numbers occurring in the recent draws.
C8_Recency ==
    (After("score_prediction_sets") /\ ValidSets(call.args[1]))
    => /\ outcome.status = "returned"
       /\ Len(outcome.value) = Len(call.args[1])
       /\ \A j \in DOMAIN outcome.value :
            outcome.value[j].components.recent =
                IF IsNone(call.args[2]) THEN One
                ELSE RSub(One, Rat(Overlapping(call.args[1][j], call.args[2][1]),
                                   Len(call.args[1][j])))

\* two of the three candidate numbers are recent: the component is 1/3
C8_Witness ==
    /\ After("score_prediction_sets")
    /\ call.args[2] = Some(<< <<2, 1>> >>)
    /\ Len(call.args[1]) = 1
    /\ ValidSets(call.args[1])
    /\ Len(call.args[1][1]) = 3
    /\ outcome.status = "returned"
    /\ outcome.value[1].components.recent = Rat(1, 3)

----------------------------------------------------------------------------
(* C9 *)

ZeroDivision == Raised("ZeroDivisionError")

\* C9: a step of __init__ or calculate_probabilities whose total weight is
\* zero, and a step of ensemble_probabilities whose weighted probabilities
\* total zero, raises ZeroDivisionError and leaves the stored probabilities
\* (and, after construction, the stored frequencies) as they were.
C9_ZeroTotalRaises ==
    [][/\ ( /\ pc = "new"
            /\ call'.op = "__init__"
            /\ TotalWeight(smoothing) = Zero )
          => /\ outcome' = ZeroDivision
             /\ pc' = "failed"
             /\ probabilities' = probabilities
       /\ \A s \in SmoothingVals :
            ( /\ pc = "ready"
              /\ call'.op = "calculate_probabilities"
              /\ s = used_smoothing(call'.args[1], smoothing)
              /\ TotalWeight(s) = Zero )
            => /\ outcome' = ZeroDivision
               /\ probabilities' = probabilities
               /\ frequencies' = frequencies
       /\ ( /\ pc = "ready"
            /\ call'.op = "ensemble_probabilities"
            /\ ProductTotal(probabilities, call'.args[1], call'.args[2]) = Zero )
          => /\ outcome' = ZeroDivision
             /\ probabilities' = probabilities
             /\ frequencies' = frequencies]_vars

\* every number has the supplied multiplier 0: the call raised and the
\* stored probabilities are still a mapping over 1..N
C9_Witness ==
    /\ After("ensemble_probabilities")
    /\ call.args[1] = Some([k \in 1..N |-> Zero])
    /\ outcome = ZeroDivision
    /\ DOMAIN probabilities = 1..N
    /\ frequencies = built.frequencies

----------------------------------------------------------------------------
(* C10 *)

\* C10: the smoothing field stays the constructor's; calculate_probabilities
\* without argument stores and returns the mapping construction stored; and
\* calculate_probabilities(0) uses 0: a number never drawn gets probability 0.
C10_OverrideNotStored ==
    Constructed =>
        /\ smoothing = built.smoothing
        /\ (After("calculate_probabilities") /\ call.args[1] = None)
           => /\ outcome = Returned(built.probabilities)
              /\ probabilities = built.probabilities
        /\ ( /\ After("calculate_probabilities")
             /\ call.args[1] = Some(Zero)
             /\ outcome.status = "returned" )
           => \A i \in 1..N : frequencies[i] = 0 => probabilities[i] = Zero

\* calculate_probabilities without argument, after calls that overrode a
\* smoothing that is not 0
C10_Witness ==
    /\ After("calculate_probabilities")
    /\ call.args[1] = None
    /\ overridden
    /\ smoothing = One
    /\ probabilities = built.probabilities

====
